---- MODULE Spec2Model ----
(***************************************************************************)
(* NUMTFinder (src/code/numtfinder.py): the run() pipeline                 *)
(*   setup -> mtQuery -> numtSearch -> numtProcess -> coverageOutputs      *)
(* with numtProcess (filter, reformat, demodulate, merge into blocks)      *)
(* modelled statement by statement.                                        *)
(*                                                                         *)
(* Tables of rje_db are python dictionaries {key tuple: entry}; they are   *)
(* modelled as functions from key tuples to records.  E-values and bit     *)
(* scores are numbers on an integer scale.  Percentages are whole          *)
(* percents.                                                               *)
(***************************************************************************)
EXTENDS Integers, Sequences, FiniteSets, TLC

VARIABLES
    pc,         \* position of run(): the next phase to execute
    opt,        \* command-line options (self.bool / self.int / self.num)
    mtLen,      \* self.int['mtLen'] (0 until mtQuery sets it)
    Exclude,    \* self.list['Exclude'] once it is a list of names
    hits,       \* $BASEFILE.numtsearch.unique.tdt as written by GABLAM
    fragdb,     \* table 'numtfrag'
    frags,      \* numtProcess: fragments still to consume, sorted
    prevfrag,   \* numtProcess: index in blocks of the open block, 0 = None
    blocks,     \* numtProcess: list of block entries
    members,    \* history: for each block, the keys of the fragments merged
    blockdb,    \* table 'numtblock' as saved
    riddb,      \* coverageOutputs: table 'rid'
    warnings    \* warnLog / errorLog events

vars == <<pc, opt, mtLen, Exclude, hits, fragdb, frags, prevfrag, blocks,
          members, blockdb, riddb, warnings>>

----------------------------------------------------------------------------
(* Bounds of the model *)

\* assembly coordinates are 1..MaxPos
MaxPos == 3
\* length of the (first) mtDNA sequence
MtLen == 4
\* rows of the hit table in the merge specification
MaxHits == 3
\* rows of the hit table in the normaliser specification
MaxNormHits == 1
\* fragmerge=X is 0 or MaxFragMerge
MaxFragMerge == 1
\* hits in the table of SpecFilter
MaxFiltHits == 2
\* hits in the table of SpecBlocks
MaxBlockHits == 4

(* Program constants *)

\* default of mtmaxcov=PERC and mtmaxid=PERC
DefaultMTMax == 99

----------------------------------------------------------------------------
(* Helpers *)

Abs(x) == IF x < 0 THEN -x ELSE x

Min(a, b) == IF a <= b THEN a ELSE b

Max(a, b) == IF a >= b THEN a ELSE b

EmptyTable == [k \in {} |-> {}]

Entries(tbl) == {tbl[k] : k \in DOMAIN tbl}

\* names of the assembly sequences; "chrM" is the mtDNA's own name
SeqNames == {"chr1", "chr2"}

MtNames == {"chrM"}

\* python string order of the sequence names
SeqRank(n) == CASE n = "chr1" -> 1 [] n = "chr2" -> 2 [] OTHER -> 3

\* python string order of the strands: '+' (43) < '-' (45)
StrandRank(s) == CASE s = "+" -> 1 [] s = "-" -> 2 [] OTHER -> 3

----------------------------------------------------------------------------
(* The hit table GABLAM writes: one row per local alignment.  The rows     *)
(* drawn are ungapped alignments of len columns with mm mismatches.        *)

AlnRow(h, s, e, q, mm) ==
    LET len == Abs(e - s) + 1
    IN  [Hit |-> h, SbjStart |-> s, SbjEnd |-> e,
         QryStart |-> q, QryEnd |-> q + len - 1,
         BitScore |-> 2 * (len - mm) - mm,
         Expect |-> MaxPos - (len - mm),
         Length |-> len, Identity |-> len - mm]

\* length of the query searched: doubled when circle=T
QueryLen(circle) == IF circle THEN 2 * MtLen ELSE MtLen

HitRows(names, circle, QS, MM) ==
    {r \in {AlnRow(h, s, e, q, mm) :
                h \in names, s \in 1..MaxPos, e \in 1..MaxPos,
                q \in QS, mm \in MM} :
        r.QryEnd <= QueryLen(circle) /\ r.Identity >= 1}

\* mainkeys=['Query','Hit','SbjStart','SbjEnd'] with a single query
RawKey(r) == <<r.Hit, r.SbjStart, r.SbjEnd>>

----------------------------------------------------------------------------
(* State after construction: _setAttributes and _cmdList *)

\* the options a command line can set, restricted to the given choices
Options(circles, strandeds, fragmerges, maxcovs, maxexcludes) ==
    [Circle : circles, Stranded : strandeds, FragMerge : fragmerges,
     MTMaxCov : maxcovs, MTMaxID : {DefaultMTMax},
     MTMaxExclude : maxexcludes, ExcludeDefault : {TRUE},
     ExcludeList : {{}}, Python : {2}]

InitWith(cfgs) ==
    /\ pc = "setup"
    /\ opt \in cfgs
    /\ mtLen = 0
    /\ Exclude = {}
    /\ hits = EmptyTable
    /\ fragdb = EmptyTable
    /\ frags = <<>>
    /\ prevfrag = 0
    /\ blocks = <<>>
    /\ members = <<>>
    /\ blockdb = EmptyTable
    /\ riddb = EmptyTable
    /\ warnings = {}

----------------------------------------------------------------------------
(* setup() *)

\* both sequence files load: Exclude becomes the mtDNA names by default
SetupOK ==
    /\ pc = "setup"
    /\ Exclude' = IF opt.ExcludeDefault THEN MtNames ELSE opt.ExcludeList
    /\ pc' = "mtQuery"
    /\ UNCHANGED <<opt, mtLen, hits, fragdb, frags, prevfrag, blocks,
                   members, blockdb, riddb, warnings>>

\* a sequence file fails to load: IOError, logged, setup returns False
SetupFail ==
    /\ pc = "setup"
    /\ warnings' = warnings \cup {<<"error", "setup">>}
    /\ pc' = "failed"
    /\ UNCHANGED <<opt, mtLen, Exclude, hits, fragdb, frags, prevfrag,
                   blocks, members, blockdb, riddb>>

(* mtQuery() *)

MtQuery ==
    /\ pc = "mtQuery"
    /\ mtLen' = IF opt.Circle THEN MtLen ELSE mtLen
    /\ pc' = "numtSearch"
    /\ UNCHANGED <<opt, Exclude, hits, fragdb, frags, prevfrag, blocks,
                   members, blockdb, riddb, warnings>>

(* numtSearch(): GABLAM writes the unique local hits, row by row *)

GablamHit(Rows, maxrows) ==
    /\ pc = "numtSearch"
    /\ Cardinality(DOMAIN hits) < maxrows
    /\ \E r \in Rows :
          /\ RawKey(r) \notin DOMAIN hits
          /\ hits' = [k \in DOMAIN hits \cup {RawKey(r)} |->
                         IF k = RawKey(r) THEN r ELSE hits[k]]
    /\ UNCHANGED <<pc, opt, mtLen, Exclude, fragdb, frags, prevfrag, blocks,
                   members, blockdb, riddb, warnings>>

NumtSearchDone ==
    /\ pc = "numtSearch"
    /\ pc' = "numtProcess"
    /\ UNCHANGED <<opt, mtLen, Exclude, hits, fragdb, frags, prevfrag,
                   blocks, members, blockdb, riddb, warnings>>

----------------------------------------------------------------------------
(* numtProcess() [2a]: the contamination filter *)

\* getPerc floored at zero, in whole percents
Thresh(perc) == Max(0, perc)

\* the filter divides by mtlen for every entry once both thresholds are set
FilterDivZero(tbl, o, mtlen) ==
    /\ Thresh(o.MTMaxID) # 0
    /\ Thresh(o.MTMaxCov) # 0
    /\ DOMAIN tbl # {}
    /\ mtlen = 0

\* x / y > perc%: integer division in Python 2, true division in Python 3
RatioOver(x, y, perc, python) ==
    IF python = 2 THEN (x \div y) * 100 > perc
                  ELSE x * 100 > perc * y

\* mutant of Flagged: without the tests of mtid and mtcov
FlaggedUnguarded(entry, o, mtlen) ==
    /\ RatioOver(entry.QryEnd - entry.QryStart + 1, mtlen,
                 Thresh(o.MTMaxCov), o.Python)
    /\ RatioOver(entry.Identity, entry.Length, Thresh(o.MTMaxID), o.Python)

\* line 637: the entry is suspected mtDNA
Flagged(entry, o, mtlen) ==
    /\ Thresh(o.MTMaxID) # 0
    /\ Thresh(o.MTMaxCov) # 0
    /\ RatioOver(entry.QryEnd - entry.QryStart + 1, mtlen,
                 Thresh(o.MTMaxCov), o.Python)
    /\ RatioOver(entry.Identity, entry.Length, Thresh(o.MTMaxID), o.Python)

\* filt, as keys of the table
Filt(tbl, o, mtlen) == {k \in DOMAIN tbl : Flagged(tbl[k], o, mtlen)}

\* filtseq: the names of the sequences with a flagged hit
FiltSeq(tbl, o, mtlen) == {tbl[k].Hit : k \in Filt(tbl, o, mtlen)}

\* mutant of ExcludeAfter: nothing is appended
ExcludeAfterNone(tbl, o, mtlen, excl) == excl

\* lines 644-648: names appended to the exclude list
ExcludeAfter(tbl, o, mtlen, excl) ==
    IF o.MTMaxExclude THEN excl \cup FiltSeq(tbl, o, mtlen) ELSE excl

\* mutant of WarnedSeqs: without the test of line 649
WarnedSeqsAll(tbl, o, mtlen, excl) ==
    IF o.MTMaxExclude THEN {} ELSE FiltSeq(tbl, o, mtlen) \ excl

\* lines 649-650: the flagged sequences that keep unfiltered fragments
WarnedSeqs(tbl, o, mtlen, excl) ==
    IF o.MTMaxExclude THEN {}
    ELSE {n \in FiltSeq(tbl, o, mtlen) \ excl :
             \E k \in DOMAIN tbl \ Filt(tbl, o, mtlen) : tbl[k].Hit = n}

\* mutant of KeptKeys: without dropEntriesDirect
KeptKeysFlaggedOnly(tbl, o, mtlen, excl) ==
    DOMAIN tbl \ Filt(tbl, o, mtlen)

\* lines 641 and 651-652: the keys left in the table
KeptKeys(tbl, o, mtlen, excl) ==
    {k \in DOMAIN tbl \ Filt(tbl, o, mtlen) :
        tbl[k].Hit \notin ExcludeAfter(tbl, o, mtlen, excl)}

\* lines 624-652; a ZeroDivisionError at line 637 is logged and re-raised
\* through run()
NumtFilter ==
    /\ pc = "numtProcess"
    /\ IF FilterDivZero(hits, opt, mtLen)
       THEN /\ fragdb' = hits
            /\ warnings' = warnings \cup {<<"error", "numtProcess">>}
            /\ pc' = "failed"
            /\ UNCHANGED Exclude
       ELSE /\ fragdb' = [k \in KeptKeys(hits, opt, mtLen, Exclude) |-> hits[k]]
            /\ Exclude' = ExcludeAfter(hits, opt, mtLen, Exclude)
            /\ warnings' = warnings \cup
                  {<<"warn", n>> : n \in WarnedSeqs(hits, opt, mtLen, Exclude)}
            /\ pc' = "reformat"
    /\ UNCHANGED <<opt, mtLen, hits, frags, prevfrag, blocks, members,
                   blockdb, riddb>>

----------------------------------------------------------------------------
(* numtProcess() [2b]: reformat into NUMT fragments *)

\* mutant of StrandOf: '<=' for '<'
StrandOfLoose(row) == IF row.SbjEnd <= row.SbjStart THEN "-" ELSE "+"

\* lines 659-662: '-' when the subject coordinates run backwards
StrandOf(row) == IF row.SbjEnd < row.SbjStart THEN "-" ELSE "+"

\* lines 654-664: rename the fields, add Strand, swap Start and End of '-'
Reformat(row) ==
    [SeqName |-> row.Hit,
     Start |-> IF StrandOf(row) = "-" THEN row.SbjEnd ELSE row.SbjStart,
     End |-> IF StrandOf(row) = "-" THEN row.SbjStart ELSE row.SbjEnd,
     Strand |-> StrandOf(row),
     BitScore |-> row.BitScore, Expect |-> row.Expect,
     Length |-> row.Length, Identity |-> row.Identity,
     mtStart |-> row.QryStart, mtEnd |-> row.QryEnd]

\* the table keeps its keys (Hit, SbjStart, SbjEnd) until newKey
NumtReformat ==
    /\ pc = "reformat"
    /\ fragdb' = [k \in DOMAIN fragdb |-> Reformat(fragdb[k])]
    /\ pc' = "newKey"
    /\ UNCHANGED <<opt, mtLen, Exclude, hits, frags, prevfrag, blocks,
                   members, blockdb, riddb, warnings>>

\* line 665: the key of a fragment
FragKey(f) == <<f.SeqName, f.Start, f.End, f.Strand>>

\* mutant of Demodulate: '>=' for '>'
DemodulateInclusive(q, mtlen) == IF q >= mtlen THEN q - mtlen ELSE q

\* lines 668-669: one coordinate of the doubled query, back on the mtDNA
Demodulate(q, mtlen) == IF q > mtlen THEN q - mtlen ELSE q

\* mutant of DemodEntry: mtEnd follows the test on mtStart
DemodEntryCoupled(f, circle, mtlen) ==
    IF circle /\ f.mtStart > mtlen
    THEN [f EXCEPT !.mtStart = f.mtStart - mtlen, !.mtEnd = f.mtEnd - mtlen]
    ELSE f

\* lines 666-669
DemodEntry(f, circle, mtlen) ==
    IF circle
    THEN [f EXCEPT !.mtStart = Demodulate(f.mtStart, mtlen),
                   !.mtEnd = Demodulate(f.mtEnd, mtlen)]
    ELSE f

\* lines 665-670: re-key by (SeqName, Start, End, Strand), demodulate, save
NumtNewKey ==
    /\ pc = "newKey"
    /\ fragdb' = [nk \in {FragKey(fragdb[k]) : k \in DOMAIN fragdb} |->
                    DemodEntry(
                        fragdb[CHOOSE k \in DOMAIN fragdb : FragKey(fragdb[k]) = nk],
                        opt.Circle, mtLen)]
    /\ pc' = "mergeSetup"
    /\ UNCHANGED <<opt, mtLen, Exclude, hits, frags, prevfrag, blocks,
                   members, blockdb, riddb, warnings>>

----------------------------------------------------------------------------
(* numtProcess() [3]: merge the fragments into blocks *)

\* order of the key tuples (SeqName, Start, End, Strand)
KeyLess(a, b) ==
    \/ SeqRank(a[1]) < SeqRank(b[1])
    \/ /\ a[1] = b[1]
       /\ \/ a[2] < b[2]
          \/ /\ a[2] = b[2]
             /\ \/ a[3] < b[3]
                \/ /\ a[3] = b[3]
                   /\ StrandRank(a[4]) < StrandRank(b[4])

\* mutant of SortedEntries: the entries in descending order of their keys
RECURSIVE SortedEntriesDesc(_, _)
SortedEntriesDesc(tbl, keys) ==
    IF keys = {} THEN <<>>
    ELSE LET m == CHOOSE x \in keys : \A y \in keys \ {x} : KeyLess(y, x)
         IN  <<tbl[m]>> \o SortedEntriesDesc(tbl, keys \ {m})

\* entries(sorted=True): the entries in the order of their keys
RECURSIVE SortedEntries(_, _)
SortedEntries(tbl, keys) ==
    IF keys = {} THEN <<>>
    ELSE LET m == CHOOSE x \in keys : \A y \in keys \ {x} : KeyLess(x, y)
         IN  <<tbl[m]>> \o SortedEntries(tbl, keys \ {m})

\* lines 675-679: an entry of the copied table, with the block fields
BlockEntry(f) ==
    [SeqName |-> f.SeqName, Start |-> f.Start, End |-> f.End,
     Strand |-> f.Strand, BitScore |-> f.BitScore, Expect |-> f.Expect,
     Length |-> f.Length, Identity |-> f.Identity,
     mtStart |-> f.mtStart, mtEnd |-> f.mtEnd,
     mtFrag |-> <<>>, FragNum |-> 1, FragLen |-> 0, FragGaps |-> 0]

\* lines 673-682
MergeSetup ==
    /\ pc = "mergeSetup"
    /\ frags' = SortedEntries([k \in DOMAIN fragdb |-> BlockEntry(fragdb[k])],
                              DOMAIN fragdb)
    /\ prevfrag' = 0
    /\ blocks' = <<>>
    /\ members' = <<>>
    /\ pc' = "merge"
    /\ UNCHANGED <<opt, mtLen, Exclude, hits, fragdb, blockdb, riddb,
                   warnings>>

\* line 686
WithFragLen(f) == [f EXCEPT !.FragLen = f.End - f.Start + 1]

\* mutant of MergeEligible: '<' for '<='
MergeEligibleStrict(prev, next, fragmerge, stranded) ==
    /\ prev.SeqName = next.SeqName
    /\ (next.Start - prev.End) < fragmerge
    /\ stranded => prev.Strand = next.Strand

\* mutant of MergeEligible: stranded is not looked at
MergeEligibleAnyStrand(prev, next, fragmerge, stranded) ==
    /\ prev.SeqName = next.SeqName
    /\ (next.Start - prev.End) <= fragmerge

\* lines 687-688: nextfrag joins the open block prev
MergeEligible(prev, next, fragmerge, stranded) ==
    /\ prev.SeqName = next.SeqName
    /\ (next.Start - prev.End) <= fragmerge
    /\ stranded => prev.Strand = next.Strand

\* mutant of MergeInto: Expect is that of the last fragment
MergeIntoLastExpect(prev, next) ==
    [prev EXCEPT
        !.FragGaps = prev.FragGaps + (next.Start - prev.End - 1),
        !.End = next.End,
        !.Expect = next.Expect,
        !.BitScore = prev.BitScore + next.BitScore,
        !.Length = prev.Length + next.Length,
        !.Identity = prev.Identity + next.Identity,
        !.FragNum = prev.FragNum + next.FragNum,
        !.FragLen = prev.FragLen + next.FragLen,
        !.mtFrag = Append(prev.mtFrag, <<next.mtStart, next.mtEnd>>),
        !.Strand = IF prev.Strand # next.Strand THEN "+/-" ELSE prev.Strand]

\* mutant of MergeInto: a '+/-' block takes the strand of the next fragment
MergeIntoStrandReset(prev, next) ==
    [prev EXCEPT
        !.FragGaps = prev.FragGaps + (next.Start - prev.End - 1),
        !.End = next.End,
        !.Expect = Min(next.Expect, prev.Expect),
        !.BitScore = prev.BitScore + next.BitScore,
        !.Length = prev.Length + next.Length,
        !.Identity = prev.Identity + next.Identity,
        !.FragNum = prev.FragNum + next.FragNum,
        !.FragLen = prev.FragLen + next.FragLen,
        !.mtFrag = Append(prev.mtFrag, <<next.mtStart, next.mtEnd>>),
        !.Strand = IF prev.Strand = "+/-" THEN next.Strand
                   ELSE IF prev.Strand # next.Strand THEN "+/-"
                   ELSE prev.Strand]

\* mutant of MergeInto: the gap is counted from End to Start inclusive
MergeIntoGapInclusive(prev, next) ==
    [prev EXCEPT
        !.FragGaps = prev.FragGaps + (next.Start - prev.End),
        !.End = next.End,
        !.Expect = Min(next.Expect, prev.Expect),
        !.BitScore = prev.BitScore + next.BitScore,
        !.Length = prev.Length + next.Length,
        !.Identity = prev.Identity + next.Identity,
        !.FragNum = prev.FragNum + next.FragNum,
        !.FragLen = prev.FragLen + next.FragLen,
        !.mtFrag = Append(prev.mtFrag, <<next.mtStart, next.mtEnd>>),
        !.Strand = IF prev.Strand # next.Strand THEN "+/-" ELSE prev.Strand]

\* lines 690-696: the open block after nextfrag is merged into it
MergeInto(prev, next) ==
    [prev EXCEPT
        !.FragGaps = prev.FragGaps + (next.Start - prev.End - 1),
        !.End = next.End,
        !.Expect = Min(next.Expect, prev.Expect),
        !.BitScore = prev.BitScore + next.BitScore,
        !.Length = prev.Length + next.Length,
        !.Identity = prev.Identity + next.Identity,
        !.FragNum = prev.FragNum + next.FragNum,
        !.FragLen = prev.FragLen + next.FragLen,
        !.mtFrag = Append(prev.mtFrag, <<next.mtStart, next.mtEnd>>),
        !.Strand = IF prev.Strand # next.Strand THEN "+/-" ELSE prev.Strand]

\* lines 698-700: nextfrag opens a block of its own
OpenBlock(next) == [next EXCEPT !.mtFrag = <<<<next.mtStart, next.mtEnd>>>>]

\* lines 683-701: one pass of the while loop
MergeStep ==
    /\ pc = "merge"
    /\ frags # <<>>
    /\ LET nextfrag == WithFragLen(Head(frags))
           merge == /\ prevfrag # 0
                    /\ MergeEligible(blocks[prevfrag], nextfrag,
                                     opt.FragMerge, opt.Stranded)
       IN  /\ frags' = Tail(frags)
           /\ IF merge
              THEN /\ blocks' = [blocks EXCEPT
                                    ![prevfrag] = MergeInto(blocks[prevfrag], nextfrag)]
                   /\ members' = [members EXCEPT
                                    ![prevfrag] = Append(@, FragKey(nextfrag))]
                   /\ prevfrag' = prevfrag
              ELSE /\ blocks' = Append(blocks, OpenBlock(nextfrag))
                   /\ members' = Append(members, <<FragKey(nextfrag)>>)
                   /\ prevfrag' = Len(blocks) + 1
    /\ UNCHANGED <<pc, opt, mtLen, Exclude, hits, fragdb, blockdb, riddb,
                   warnings>>

\* line 706: the key of a block in the saved table
BlockKey(b) == <<b.SeqName, b.Start, b.End, b.Strand>>

\* mutant of BlockLength: the summed Length of the merge is kept
BlockLengthSummed(b) == b.Length

\* line 707
BlockLength(b) == b.End - b.Start + 1

\* lines 705-710: a block as saved, without mtStart and mtEnd
SavedBlock(b) ==
    [SeqName |-> b.SeqName, Start |-> b.Start, End |-> b.End,
     Strand |-> b.Strand, BitScore |-> b.BitScore, Expect |-> b.Expect,
     Length |-> BlockLength(b), Identity |-> b.Identity,
     mtFrag |-> b.mtFrag, FragNum |-> b.FragNum, FragLen |-> b.FragLen,
     FragGaps |-> b.FragGaps]

\* lines 704-709: blockdata[bkey] = entry, a later block replacing an earlier
BlockData(bs) ==
    [bk \in {BlockKey(bs[i]) : i \in 1..Len(bs)} |->
        LET last == CHOOSE i \in 1..Len(bs) :
                       /\ BlockKey(bs[i]) = bk
                       /\ \A j \in 1..Len(bs) : BlockKey(bs[j]) = bk => j <= i
        IN  SavedBlock(bs[last])]

\* lines 702-711: the loop is over, the block table is saved
UpdateBlocks ==
    /\ pc = "merge"
    /\ frags = <<>>
    /\ blocks' = IF blocks = <<>> THEN <<>>
                  ELSE [i \in 1..Len(blocks) |->
                           [blocks[i] EXCEPT !.Length = BlockLength(blocks[i])]]
    /\ blockdb' = BlockData(blocks)
    /\ pc' = "coverage"
    /\ UNCHANGED <<opt, mtLen, Exclude, hits, fragdb, frags, prevfrag,
                   members, riddb, warnings>>

----------------------------------------------------------------------------
(* coverageOutputs() *)

\* lines 726-734: a fragment as an entry of the 'rid' table
RidEntry(id, f) ==
    [RID |-> id, Locus |-> "chrM", Start |-> f.mtStart, End |-> f.mtEnd,
     RLen |-> f.Length, Strand |-> f.Strand]

\* lines 726-729: autoID numbers the fragments in the order of their keys
RidTable(tbl) ==
    LET sorted == SortedEntries(tbl, DOMAIN tbl)
    IN  [i \in 1..Len(sorted) |-> RidEntry(i, sorted[i])]

\* line 740: the entry spans the circularisation point
SpansOrigin(r) == r.Strand = "+" /\ r.Start > r.End

\* mutant of SplitRids: the entry keeps its Start, the new entry starts at 1
SplitRidsKeepStart(rid, mtlen) ==
    LET n == Cardinality(DOMAIN rid)
        split == {i \in DOMAIN rid : SpansOrigin(rid[i])}
        NewId(i) == n + Cardinality({j \in split : j <= i})
    IN  [id \in 1..(n + Cardinality(split)) |->
            IF id <= n
            THEN IF id \in split THEN [rid[id] EXCEPT !.End = mtlen]
                                 ELSE rid[id]
            ELSE LET i == CHOOSE i \in split : NewId(i) = id
                 IN  [rid[i] EXCEPT !.Start = 1, !.RID = id]]

\* lines 738-747: split the entries that span the circularisation point
SplitRids(rid, mtlen) ==
    LET n == Cardinality(DOMAIN rid)
        split == {i \in DOMAIN rid : SpansOrigin(rid[i])}
        NewId(i) == n + Cardinality({j \in split : j <= i})
    IN  [id \in 1..(n + Cardinality(split)) |->
            IF id <= n
            THEN IF id \in split THEN [rid[id] EXCEPT !.Start = 1] ELSE rid[id]
            ELSE LET i == CHOOSE i \in split : NewId(i) = id
                 IN  [rid[i] EXCEPT !.End = mtlen, !.RID = id]]

CoverageOutputs ==
    /\ pc = "coverage"
    /\ DOMAIN fragdb # {}
    /\ riddb' = SplitRids(RidTable(fragdb), mtLen)
    /\ pc' = "done"
    /\ UNCHANGED <<opt, mtLen, Exclude, hits, fragdb, frags, prevfrag,
                   blocks, members, blockdb, warnings>>

\* line 736: max() of an empty list raises; logged, returns False
CoverageError ==
    /\ pc = "coverage"
    /\ DOMAIN fragdb = {}
    /\ warnings' = warnings \cup {<<"error", "coverageOutputs">>}
    /\ pc' = "done"
    /\ UNCHANGED <<opt, mtLen, Exclude, hits, fragdb, frags, prevfrag,
                   blocks, members, blockdb, riddb>>

----------------------------------------------------------------------------
(* Specifications *)

\* the pipeline after numtSearch
Process ==
    \/ NumtFilter
    \/ NumtReformat
    \/ NumtNewKey
    \/ MergeSetup
    \/ MergeStep
    \/ UpdateBlocks
    \/ CoverageOutputs
    \/ CoverageError

(* Spec: hits anywhere on the query, circular or linear, filter on or off *)

NormRows == HitRows({"chr1"}, opt.Circle, 1..QueryLen(opt.Circle), {0})

Init ==
    InitWith(Options(BOOLEAN, {FALSE}, {MaxFragMerge}, {0, DefaultMTMax},
                     {TRUE}))

Next ==
    \/ SetupOK
    \/ SetupFail
    \/ MtQuery
    \/ GablamHit(NormRows, MaxNormHits)
    \/ NumtSearchDone
    \/ Process

Spec == Init /\ [][Next]_vars

(* SpecMerge: several hits of a circular mtDNA, any merge options *)

MergeRows == HitRows(SeqNames, TRUE, {1}, {0})

InitMerge ==
    InitWith(Options({TRUE}, BOOLEAN, {0, MaxFragMerge}, {DefaultMTMax},
                     {TRUE}))

NextMerge ==
    \/ SetupOK
    \/ SetupFail
    \/ MtQuery
    \/ GablamHit(MergeRows, MaxHits)
    \/ NumtSearchDone
    \/ Process

SpecMerge == InitMerge /\ [][NextMerge]_vars

(* SpecFilter: hits that cover up to the whole mtDNA, on a nuclear        *)
(* sequence and on the assembly's own copy of the mtDNA, under any        *)
(* setting of the contamination filter and of the exclusion list          *)

\* an ungapped forward alignment of span columns from the first base of
\* the query, with mm mismatches
CovRow(h, s, span, mm) ==
    [Hit |-> h, SbjStart |-> s, SbjEnd |-> s + span - 1,
     QryStart |-> 1, QryEnd |-> span,
     BitScore |-> 2 * (span - mm) - mm, Expect |-> mm,
     Length |-> span, Identity |-> span - mm]

\* the sequences of the assembly that carry hits
FilterNames == {"chr1"} \cup MtNames

FilterRows ==
    {CovRow(h, s, span, mm) :
        h \in FilterNames, s \in {1, 2},
        span \in {MtLen - 2, MtLen - 1, MtLen}, mm \in {0, 1}}

\* circle=T with the given filter settings; exclude=LIST unset (the mtDNA
\* names), empty, or one nuclear sequence
FilterOptions(maxcovs, maxids, maxexcludes) ==
    {o \in [Circle : {TRUE}, Stranded : {FALSE}, FragMerge : {MaxFragMerge},
            MTMaxCov : maxcovs, MTMaxID : maxids,
            MTMaxExclude : maxexcludes, ExcludeDefault : BOOLEAN,
            ExcludeList : {{}, {"chr1"}}, Python : {2}] :
        o.ExcludeDefault => o.ExcludeList = {}}

InitFilter ==
    InitWith(FilterOptions({-1, 0, 50, DefaultMTMax}, {-1, 0, 50},
                           BOOLEAN))

NextFilter ==
    \/ SetupOK
    \/ SetupFail
    \/ MtQuery
    \/ GablamHit(FilterRows, MaxFiltHits)
    \/ NumtSearchDone
    \/ Process

SpecFilter == InitFilter /\ [][NextFilter]_vars

(* SpecBlocks: up to MaxBlockHits hits, any two of which may overlap, on  *)
(* one sequence and at the start of a second, with fragmerge negative,    *)
(* zero or positive and stranded on or off                                *)

BlockRows ==
    HitRows({"chr1"}, TRUE, {1}, {0}) \cup {AlnRow("chr2", 1, 1, 1, 0)}

InitBlocks ==
    InitWith(Options({TRUE}, BOOLEAN, {-1, 0, MaxFragMerge}, {DefaultMTMax},
                     {TRUE}))

NextBlocks ==
    \/ SetupOK
    \/ SetupFail
    \/ MtQuery
    \/ GablamHit(BlockRows, MaxBlockHits)
    \/ NumtSearchDone
    \/ Process

SpecBlocks == InitBlocks /\ [][NextBlocks]_vars

(* SpecFail: the run of Spec when mtQuery or numtSearch can raise *)

\* mtQuery raises in its circular branch (reading the first sequence,
\* writing the doubled query), before or after mtLen is set at line 576;
\* line 587 logs the error and returns, and run() goes on to numtSearch
MtQueryError ==
    /\ pc = "mtQuery"
    /\ opt.Circle
    /\ mtLen' \in {mtLen, MtLen}
    /\ warnings' = warnings \cup {<<"error", "mtQuery">>}
    /\ pc' = "numtSearch"
    /\ UNCHANGED <<opt, Exclude, hits, fragdb, frags, prevfrag, blocks,
                   members, blockdb, riddb>>

\* GABLAM raises, or leaves no unique.tdt for the check at line 615;
\* line 618 logs the error and returns, and run() goes on to numtProcess,
\* with the table as far as it was written or without one
NumtSearchError ==
    /\ pc = "numtSearch"
    /\ warnings' = warnings \cup {<<"error", "numtSearch">>}
    /\ pc' \in {"numtProcess", "noResults"}
    /\ UNCHANGED <<opt, mtLen, Exclude, hits, fragdb, frags, prevfrag,
                   blocks, members, blockdb, riddb>>

\* numtProcess without a table to load: lines 628-631 raise, line 712 logs
\* and re-raises through run()
NumtLoadError ==
    /\ pc = "noResults"
    /\ warnings' = warnings \cup {<<"error", "numtProcess">>}
    /\ pc' = "failed"
    /\ UNCHANGED <<opt, mtLen, Exclude, hits, fragdb, frags, prevfrag,
                   blocks, members, blockdb, riddb>>

InitFail ==
    InitWith(Options(BOOLEAN, {FALSE}, {MaxFragMerge}, {0, DefaultMTMax},
                     {TRUE}))

NextFail ==
    \/ SetupOK
    \/ SetupFail
    \/ MtQuery
    \/ MtQueryError
    \/ GablamHit(NormRows, MaxNormHits)
    \/ NumtSearchDone
    \/ NumtSearchError
    \/ NumtLoadError
    \/ Process

SpecFail == InitFail /\ [][NextFail]_vars

----------------------------------------------------------------------------
(* Properties *)

\* the fragments merged into block i, in the order they were merged
MemberFrags(i) == [j \in 1..Len(members[i]) |-> fragdb[members[i][j]]]

RECURSIVE SumField(_, _)
SumField(s, field) ==
    IF Len(s) = 0 THEN 0 ELSE Head(s)[field] + SumField(Tail(s), field)

RECURSIVE SumSpan(_)
SumSpan(s) ==
    IF Len(s) = 0 THEN 0
    ELSE (Head(s).End - Head(s).Start + 1) + SumSpan(Tail(s))

FieldSet(s, field) == {s[j][field] : j \in 1..Len(s)}

SetMin(S) == CHOOSE x \in S : \A y \in S : x <= y

SetMax(S) == CHOOSE x \in S : \A y \in S : x >= y

\* the merge pass has started: blocks and members are those of this run
Merging == pc \in {"merge", "coverage", "done"}

\* the merge pass and the block table are complete
Merged == pc \in {"coverage", "done"}

\* the raw key of the hit a fragment was derived from
RawKeyOf(f) ==
    <<f.SeqName, IF f.Strand = "-" THEN f.End ELSE f.Start,
                 IF f.Strand = "-" THEN f.Start ELSE f.End>>

(* C1: two adjacent same-sequence fragments whose gap (the bases between  *)
(* them, B.Start - A.End - 1, as in the example A end=500, B start=8501,  *)
(* gap=8000) is exactly fragMerge merge into one block, and a gap of      *)
(* fragMerge+1 yields two blocks.                                         *)
C1_GapBoundary ==
    (Merged /\ ~opt.Stranded /\ Cardinality(DOMAIN fragdb) = 2) =>
        \A a \in Entries(fragdb), b \in Entries(fragdb) :
            a.SeqName = b.SeqName =>
                /\ b.Start - a.End - 1 = opt.FragMerge => Len(blocks) = 1
                /\ b.Start - a.End - 1 = opt.FragMerge + 1 => Len(blocks) = 2

C3_Aggregates ==
    Merging =>
        /\ \A i \in 1..Len(blocks) :
              LET b == blocks[i]
                  ms == MemberFrags(i)
              IN  /\ b.FragNum = Len(ms)
                  /\ b.FragLen = SumSpan(ms)
                  /\ b.Expect = SetMin(FieldSet(ms, "Expect"))
                  /\ b.BitScore = SumField(ms, "BitScore")
                  /\ b.Identity = SumField(ms, "Identity")
        /\ \A bk \in DOMAIN blockdb :
              \E i \in 1..Len(blocks) :
                 LET b == blockdb[bk]
                     ms == MemberFrags(i)
                 IN  /\ BlockKey(blocks[i]) = bk
                     /\ b.FragNum = Len(ms)
                     /\ b.FragLen = SumSpan(ms)
                     /\ b.Expect = SetMin(FieldSet(ms, "Expect"))
                     /\ b.BitScore = SumField(ms, "BitScore")
                     /\ b.Identity = SumField(ms, "Identity")

\* a saved block of two or more fragments whose e-values differ, the
\* first one's not the smallest
C3_Witness ==
    /\ Merged
    /\ \E bk \in DOMAIN blockdb :
          /\ blockdb[bk].FragNum >= 2
          /\ \E i \in 1..Len(blocks) :
                /\ BlockKey(blocks[i]) = bk
                /\ MemberFrags(i)[1].Expect > blockdb[bk].Expect

(* C4: in the saved block table, Length is the sum of the alignment       *)
(* Length values of the block's fragments.                                *)
C4_LengthSummed ==
    Merged =>
        \A bk \in DOMAIN blockdb :
            \E i \in 1..Len(blocks) :
                /\ BlockKey(blocks[i]) = bk
                /\ blockdb[bk].Length = SumField(MemberFrags(i), "Length")

(* C5: for every block, Start is the minimum Start and End the maximum    *)
(* End of the fragments merged into it, also when a fragment overlaps or  *)
(* is contained in an earlier one.                                        *)
C5_BlockIsUnion ==
    Merging =>
        \A i \in 1..Len(blocks) :
            /\ blocks[i].Start = SetMin(FieldSet(MemberFrags(i), "Start"))
            /\ blocks[i].End = SetMax(FieldSet(MemberFrags(i), "End"))

(* C6: with stranded=T a fragment is never merged into a block of the     *)
(* opposite strand, whatever the gap: every block holds fragments of one  *)
(* strand and no block has Strand '+/-'.                                  *)
C6_StrandedExclusive ==
    (Merging /\ opt.Stranded) =>
        \A i \in 1..Len(blocks) :
            /\ blocks[i].Strand \in {"+", "-"}
            /\ FieldSet(MemberFrags(i), "Strand") = {blocks[i].Strand}

\* stranded=T and two blocks in a row on one sequence, of opposite
\* strands, the second starting within fragMerge of the first's end
C6_Witness ==
    /\ Merged
    /\ opt.Stranded
    /\ \E i \in 1..(Len(blocks) - 1) :
          /\ blocks[i].SeqName = blocks[i + 1].SeqName
          /\ blocks[i].Strand # blocks[i + 1].Strand
          /\ blocks[i + 1].Start - blocks[i].End <= opt.FragMerge

(* C7: with stranded=F a block's Strand is '+' iff all its fragments are  *)
(* '+', '-' iff all are '-', and '+/-' iff they are on both strands, at   *)
(* every step of the merge: a '+/-' block stays '+/-'.                    *)
C7_StrandMarker ==
    (Merging /\ ~opt.Stranded) =>
        \A i \in 1..Len(blocks) :
            LET strands == FieldSet(MemberFrags(i), "Strand")
            IN  /\ blocks[i].Strand = "+" <=> strands = {"+"}
                /\ blocks[i].Strand = "-" <=> strands = {"-"}
                /\ blocks[i].Strand = "+/-" <=> strands = {"+", "-"}

\* a block that was already '+/-' took one more fragment
C7_Witness ==
    /\ Merging
    /\ ~opt.Stranded
    /\ \E i \in 1..Len(blocks) :
          /\ Len(members[i]) >= 3
          /\ members[i][1][4] # members[i][2][4]
          /\ blocks[i].Strand = "+/-"

(* C8: every hit that survives the filter becomes a fragment with Start   *)
(* <= End; its Strand is '-' iff the raw SbjEnd < SbjStart, and then      *)
(* Start and End are the swapped subject coordinates; else it is '+'.     *)
C8_StrandNormalised ==
    /\ pc = "newKey" =>
          \A k \in DOMAIN fragdb :
              LET f == fragdb[k]
                  h == hits[k]
              IN  /\ f.Start <= f.End
                  /\ f.Strand = "-" <=> h.SbjEnd < h.SbjStart
                  /\ f.Strand = "+" <=> h.SbjEnd >= h.SbjStart
                  /\ f.Strand = "-" =>
                        f.Start = h.SbjEnd /\ f.End = h.SbjStart
                  /\ f.Strand = "+" =>
                        f.Start = h.SbjStart /\ f.End = h.SbjEnd
    /\ pc \in {"mergeSetup", "merge", "coverage", "done"} =>
          \A k \in DOMAIN fragdb :
              /\ fragdb[k].Start <= fragdb[k].End
              /\ RawKeyOf(fragdb[k]) \in DOMAIN hits

\* a hit with SbjEnd < SbjStart was reformatted
C8_Witness ==
    /\ pc = "newKey"
    /\ \E k \in DOMAIN fragdb :
          hits[k].SbjEnd < hits[k].SbjStart /\ fragdb[k].Start < fragdb[k].End

\* a raw query coordinate on the single-copy mtDNA, as the claim has it
OnceOff(q) == IF q > MtLen THEN q - MtLen ELSE q

(* C9: with circle=T each of mtStart and mtEnd has mtLen subtracted once  *)
(* when it is greater than mtLen and is unchanged otherwise, each on its  *)
(* own (so mtStart > mtEnd can result); with circle=F both equal the raw  *)
(* QryStart and QryEnd.                                                   *)
C9_Demodulated ==
    pc \in {"mergeSetup", "merge", "coverage", "done"} =>
        \A k \in DOMAIN fragdb :
            LET f == fragdb[k]
                h == hits[RawKeyOf(f)]
            IN  IF opt.Circle
                THEN /\ f.mtStart = OnceOff(h.QryStart)
                     /\ f.mtEnd = OnceOff(h.QryEnd)
                ELSE /\ f.mtStart = h.QryStart
                     /\ f.mtEnd = h.QryEnd

\* a hit across the end of the first copy: mtStart stays, mtEnd wraps
C9_Witness ==
    /\ pc = "mergeSetup"
    /\ opt.Circle
    /\ \E k \in DOMAIN fragdb :
          /\ hits[RawKeyOf(fragdb[k])].QryStart <= MtLen
          /\ hits[RawKeyOf(fragdb[k])].QryEnd > MtLen
          /\ fragdb[k].mtStart > fragdb[k].mtEnd

(* C10: for mtLen = L and any query coordinate q of the doubled query,    *)
(* demodulate(q) lies in 1..L and demodulate(demodulate(q)) =             *)
(* demodulate(q).                                                         *)
C10_DemodRange ==
    (opt.Circle /\ pc \in {"mergeSetup", "merge", "coverage", "done"}) =>
        /\ \A k \in DOMAIN hits : \A q \in {hits[k].QryStart, hits[k].QryEnd} :
              /\ Demodulate(q, mtLen) \in 1..MtLen
              /\ Demodulate(Demodulate(q, mtLen), mtLen) = Demodulate(q, mtLen)
        /\ \A k \in DOMAIN fragdb :
              /\ fragdb[k].mtStart \in 1..MtLen
              /\ fragdb[k].mtEnd \in 1..MtLen
              /\ Demodulate(fragdb[k].mtStart, mtLen) = fragdb[k].mtStart
              /\ Demodulate(fragdb[k].mtEnd, mtLen) = fragdb[k].mtEnd

\* a hit from the last base of the first copy to the first base of the
\* second was demodulated: the two ends of the range 1..L
C10_Witness ==
    /\ pc = "mergeSetup"
    /\ opt.Circle
    /\ \E k \in DOMAIN fragdb :
          /\ hits[RawKeyOf(fragdb[k])].QryStart = MtLen
          /\ hits[RawKeyOf(fragdb[k])].QryEnd = MtLen + 1
          /\ fragdb[k].mtStart = MtLen
          /\ fragdb[k].mtEnd = 1

----------------------------------------------------------------------------
(* Properties of the contamination filter *)

\* the filter has run and numtProcess went on
Filtered ==
    pc \in {"reformat", "newKey", "mergeSetup", "merge", "coverage", "done"}

\* the raw keys of the hits still in the working table
KeptRaw ==
    IF pc \in {"reformat", "newKey"} THEN DOMAIN fragdb
    ELSE {RawKeyOf(fragdb[k]) : k \in DOMAIN fragdb}

\* the exclusion list as the user declared it: the mtDNA names by default
UserExclude == IF opt.ExcludeDefault THEN MtNames ELSE opt.ExcludeList

\* x / y is greater than perc percent, as an exact fraction
ExactOver(x, y, perc) == x * 100 > perc * y

\* a hit over both thresholds, by exact fractions
ExactFlag(h) ==
    /\ ExactOver(h.QryEnd - h.QryStart + 1, mtLen, opt.MTMaxCov)
    /\ ExactOver(h.Identity, h.Length, opt.MTMaxID)

(* C11: with both thresholds positive, a raw hit is flagged (and so       *)
(* removed from the working table even though its sequence is not         *)
(* excluded) if and only if (QryEnd - QryStart + 1) / mtLen > mtMaxCov    *)
(* and Identity / Length > mtMaxId as exact fractions: coverage equal to  *)
(* mtMaxCov is not flagged, coverage anywhere above it is.                *)
C11_ThresholdExact ==
    (Filtered /\ opt.MTMaxCov > 0 /\ opt.MTMaxID > 0) =>
        \A k \in DOMAIN hits :
            hits[k].Hit \notin Exclude =>
                (k \notin KeptRaw <=> ExactFlag(hits[k]))

\* the keys of the hits the filter flagged (filt at line 638)
FlaggedKeys == {k \in DOMAIN hits : Flagged(hits[k], opt, mtLen)}

\* the names of the sequences with a flagged hit
FlaggedSeqs == {hits[k].Hit : k \in FlaggedKeys}

\* the fragments of the sequences outside a set of names
FragsOutside(names) ==
    [k \in {j \in DOMAIN fragdb : j[1] \notin names} |-> fragdb[k]]

\* no row of the fragment table, of the blocks or of the block table is
\* from a sequence in names, and the coverage intervals are those of the
\* fragments of the other sequences
NoOutputFrom(names) ==
    /\ \A k \in DOMAIN fragdb : k[1] \notin names
    /\ Merging => \A i \in 1..Len(blocks) : blocks[i].SeqName \notin names
    /\ \A k \in DOMAIN blockdb :
          k[1] \notin names /\ blockdb[k].SeqName \notin names
    /\ (pc = "done" /\ riddb # EmptyTable) =>
          riddb = SplitRids(RidTable(FragsOutside(names)), mtLen)

(* C12: with mtmaxexclude=T every sequence name with at least one flagged *)
(* hit is in the exclusion list after the filter, and no fragment, block  *)
(* or coverage interval comes from such a sequence: its unflagged hits    *)
(* are dropped as well.                                                   *)
C12_AutoExclude ==
    (Filtered /\ opt.MTMaxExclude) =>
        /\ FlaggedSeqs \subseteq Exclude
        /\ \A k \in KeptRaw : k[1] \notin FlaggedSeqs
        /\ NoOutputFrom(FlaggedSeqs)

\* a sequence outside the declared list had a flagged hit and an unflagged
\* one, and the run ended with it excluded
C12_Witness ==
    /\ pc = "done"
    /\ opt.MTMaxExclude
    /\ \E k \in FlaggedKeys : \E j \in DOMAIN hits \ FlaggedKeys :
          /\ hits[k].Hit = hits[j].Hit
          /\ hits[k].Hit \notin UserExclude
          /\ hits[k].Hit \in Exclude
          /\ j \notin KeptRaw

\* the warnLog events of the run
Warned == {w \in warnings : w[1] = "warn"}

(* C13: with mtmaxexclude=F the flagged hits are removed but nothing is   *)
(* added to the exclusion list; every unflagged hit of a flagged sequence *)
(* outside the declared exclusion list stays in the fragment table; a     *)
(* warning names a sequence exactly when it is such a sequence with at    *)
(* least one unflagged hit left; numtProcess logs no error.               *)
C13_HitsOnlyDropped ==
    (Filtered /\ ~opt.MTMaxExclude) =>
        /\ Exclude = UserExclude
        /\ \A k \in FlaggedKeys : k \notin KeptRaw
        /\ \A k \in DOMAIN hits \ FlaggedKeys :
              hits[k].Hit \in FlaggedSeqs \ UserExclude => k \in KeptRaw
        /\ Warned = {<<"warn", n>> : n \in
                        {m \in FlaggedSeqs \ UserExclude :
                            \E k \in KeptRaw : k[1] = m}}
        /\ <<"error", "numtProcess">> \notin warnings

\* a flagged sequence kept an unflagged hit to the end of the run, with a
\* warning
C13_Witness ==
    /\ pc = "done"
    /\ ~opt.MTMaxExclude
    /\ \E k \in FlaggedKeys : \E j \in DOMAIN hits \ FlaggedKeys :
          /\ hits[k].Hit = hits[j].Hit
          /\ j \in KeptRaw
          /\ k \notin KeptRaw
          /\ <<"warn", hits[k].Hit>> \in warnings
          /\ hits[k].Hit \notin Exclude

(* C14: after the filter the exclusion list holds the declared names (by  *)
(* default the mtDNA names) and the names added by the filter; no hit of  *)
(* a listed sequence is left, so no row of the fragment table, the block  *)
(* table or the coverage table is from a listed sequence; every hit that  *)
(* is neither flagged nor of a listed sequence is kept.                   *)
C14_ExclusionComplete ==
    Filtered =>
        /\ UserExclude \subseteq Exclude
        /\ Exclude \subseteq UserExclude \cup FlaggedSeqs
        /\ \A k \in KeptRaw : k[1] \notin Exclude
        /\ NoOutputFrom(Exclude)
        /\ \A k \in DOMAIN hits \ FlaggedKeys :
              hits[k].Hit \notin Exclude => k \in KeptRaw

\* hits of a declared name and of a name added by the filter were dropped
\* and a hit of another sequence was kept to the end of the run
C14_Witness ==
    /\ pc = "done"
    /\ \E k \in DOMAIN hits : hits[k].Hit \in UserExclude
    /\ \E k \in DOMAIN hits \ FlaggedKeys :
          hits[k].Hit \notin Exclude /\ k \in KeptRaw

(* C15: when mtmaxcov or mtmaxid is 0 or negative, no hit is flagged: the *)
(* exclusion list stays as declared, no warning is logged, and the hits   *)
(* kept are exactly those of the sequences outside the declared list.     *)
C15_ZeroDisables ==
    (Filtered /\ (opt.MTMaxCov <= 0 \/ opt.MTMaxID <= 0)) =>
        /\ Exclude = UserExclude
        /\ Warned = {}
        /\ KeptRaw = {k \in DOMAIN hits : hits[k].Hit \notin UserExclude}

\* a hit over the whole mtDNA without a mismatch was kept to the end of
\* the run, under a zero and under a negative threshold
C15_Witness ==
    /\ pc = "done"
    /\ opt.MTMaxCov = 0 \/ opt.MTMaxID < 0
    /\ \E k \in KeptRaw :
          /\ hits[k].QryEnd - hits[k].QryStart + 1 = mtLen
          /\ hits[k].Identity = hits[k].Length

----------------------------------------------------------------------------
(* Properties of the coverage mapper *)

\* the 'rid' table before the split: one entry per fragment
Unsplit == RidTable(fragdb)

\* coverageOutputs built the 'rid' table and handed it on
Covered == pc = "done" /\ riddb # EmptyTable

(* C16, as claimed: an interval with strand '+' and start > end becomes   *)
(* two; the one that retains the original id keeps the original start and *)
(* has end = mtLen, the one with a new id has start = 1 and the original  *)
(* end.  Intervals with start <= end are left unchanged.                  *)
C16_SplitRule ==
    Covered =>
        \A i \in DOMAIN Unsplit :
            LET r == Unsplit[i]
            IN  IF r.Strand = "+" /\ r.Start > r.End
                THEN /\ riddb[i] = [r EXCEPT !.End = mtLen]
                     /\ \E j \in DOMAIN riddb \ DOMAIN Unsplit :
                           riddb[j] = [r EXCEPT !.RID = j, !.Start = 1]
                ELSE r.Start <= r.End => riddb[i] = r

(* C16, amended: an interval with strand '+' and start > end becomes two; *)
(* the one that retains the original id has start = 1 and the original    *)
(* end, the one with a new id, unused before, keeps the original start    *)
(* and has end = mtLen.  Every other interval is left unchanged, and      *)
(* there is one new interval per split.                                   *)
C16_SplitRuleAmended ==
    Covered =>
        /\ \A i \in DOMAIN Unsplit :
              LET r == Unsplit[i]
              IN  IF r.Strand = "+" /\ r.Start > r.End
                  THEN /\ riddb[i] = [r EXCEPT !.Start = 1]
                       /\ \E j \in DOMAIN riddb \ DOMAIN Unsplit :
                             riddb[j] = [r EXCEPT !.RID = j, !.End = mtLen]
                  ELSE riddb[i] = r
        /\ \A j \in DOMAIN riddb : riddb[j].RID = j
        /\ Cardinality(DOMAIN riddb) = Cardinality(DOMAIN Unsplit) +
              Cardinality({i \in DOMAIN Unsplit :
                  Unsplit[i].Strand = "+" /\ Unsplit[i].Start > Unsplit[i].End})

\* a '+' fragment across the circularisation point was split
C16_Witness ==
    /\ Covered
    /\ \E i \in DOMAIN Unsplit :
          /\ Unsplit[i].Strand = "+"
          /\ Unsplit[i].Start > Unsplit[i].End
          /\ riddb[i].Start = 1
          /\ Cardinality(DOMAIN riddb) > Cardinality(DOMAIN Unsplit)

(* C17: with circle=T every interval of the table handed to the depth     *)
(* computation has 1 <= start <= end <= mtLen, whatever the strand of the *)
(* fragment and whether or not it spans the circularisation point.        *)
C17_IntervalBounds ==
    (Covered /\ opt.Circle) =>
        \A i \in DOMAIN riddb :
            /\ 1 <= riddb[i].Start
            /\ riddb[i].Start <= riddb[i].End
            /\ riddb[i].End <= mtLen

\* depth(p): the number of intervals with start <= p <= end
Depth(tbl, p) ==
    Cardinality({i \in DOMAIN tbl : tbl[i].Start <= p /\ p <= tbl[i].End})

\* depth(p) of the unsplit intervals, an interval with start > end taken
\* modulo mtLen: start..mtLen and 1..end
WrapDepth(tbl, p) ==
    Cardinality({i \in DOMAIN tbl :
        IF tbl[i].Start <= tbl[i].End
        THEN tbl[i].Start <= p /\ p <= tbl[i].End
        ELSE tbl[i].Start <= p \/ p <= tbl[i].End})

(* C18: with circle=T the depth at every position 1..mtLen counted from   *)
(* the intervals after the split equals the depth counted from the        *)
(* unsplit intervals with every origin-spanning one (mtStart > mtEnd)     *)
(* taken modulo mtLen.                                                    *)
C18_DepthConserved ==
    (Covered /\ opt.Circle) =>
        \A p \in 1..mtLen : Depth(riddb, p) = WrapDepth(Unsplit, p)

(* C19: the table whose RLen values go to the read-length profile has     *)
(* exactly one entry per fragment: the entries are those of the table     *)
(* before the split, up to their coordinates.                             *)
C19_ReadLenPreSplit ==
    Covered =>
        /\ Cardinality(DOMAIN riddb) = Cardinality(DOMAIN fragdb)
        /\ \A i \in DOMAIN riddb :
              i \in DOMAIN Unsplit /\ riddb[i].RLen = Unsplit[i].RLen

(* C20: when no fragment is left after the filter, the run ends with an   *)
(* empty block table and an empty coverage table, and neither numtProcess *)
(* nor coverageOutputs has logged an error.                               *)
C20_EmptyNoError ==
    (pc = "done" /\ DOMAIN fragdb = {}) =>
        /\ blocks = <<>>
        /\ blockdb = EmptyTable
        /\ riddb = EmptyTable
        /\ \A w \in warnings : w[1] # "error"

----------------------------------------------------------------------------
(* Properties of the merge pass and of the run as a whole *)

\* the while loop of lines 683-701 run to its end on the sorted fragments
\* fs, from the blocks bs, with the given fragmerge and stranded
RECURSIVE MergePass(_, _, _, _)
MergePass(bs, fs, fragmerge, stranded) ==
    IF fs = <<>> THEN bs
    ELSE LET nextfrag == WithFragLen(Head(fs))
             merge == /\ bs # <<>>
                      /\ MergeEligible(bs[Len(bs)], nextfrag, fragmerge,
                                       stranded)
         IN  MergePass(IF merge
                       THEN [bs EXCEPT
                                ![Len(bs)] = MergeInto(bs[Len(bs)], nextfrag)]
                       ELSE Append(bs, OpenBlock(nextfrag)),
                       Tail(fs), fragmerge, stranded)

\* the sorted fragments the merge pass starts from
SortedFrags ==
    SortedEntries([k \in DOMAIN fragdb |-> BlockEntry(fragdb[k])],
                  DOMAIN fragdb)

(* C21: with fragmerge negative the merge pass ends with the blocks it    *)
(* ends with under fragmerge = 0 on the same sorted fragments, and the    *)
(* saved block table is the same.                                         *)
C21_NegativeClamped ==
    opt.FragMerge < 0 =>
        /\ (pc = "merge" /\ frags = <<>>) =>
              blocks = MergePass(<<>>, SortedFrags, 0, opt.Stranded)
        /\ Merged =>
              blockdb = BlockData(MergePass(<<>>, SortedFrags, 0,
                                            opt.Stranded))

(* C22: coverageOutputs is not reached with mtLen <= 0: with circle=T or  *)
(* circle=F and under any thresholds, a run that gets to the coverage     *)
(* phase has a positive mtLen; a failed load of the mtDNA ends the run in *)
(* setup.                                                                 *)
C22_CoverageNeedsMtLen ==
    /\ pc \in {"coverage", "done"} => mtLen > 0
    /\ <<"error", "setup">> \in warnings => pc = "failed"

\* errorLog was called in the given phase
Failed(phase) == <<"error", phase>> \in warnings

(* C23: the phases run in the order setup, mtQuery, numtSearch,           *)
(* numtProcess, coverageOutputs, and once a phase has logged an error no  *)
(* later phase runs: the run has ended.  In particular numtSearch and     *)
(* numtProcess do not start after mtQuery or numtSearch failed, and       *)
(* coverageOutputs does not run after numtProcess failed.                 *)
C23_PhaseOrder ==
    /\ Failed("setup") => pc = "failed"
    /\ Failed("mtQuery") => pc = "failed"
    /\ Failed("numtSearch") => pc = "failed"
    /\ Failed("numtProcess") => pc = "failed"
    /\ Failed("coverageOutputs") => pc = "done"

RECURSIVE Flatten(_)
Flatten(ss) == IF ss = <<>> THEN <<>> ELSE Head(ss) \o Flatten(Tail(ss))

\* the keys of a list of fragments, in its order
KeysOf(fs) == [i \in 1..Len(fs) |-> FragKey(fs[i])]

\* the fragments consumed so far, block by block, then those still to
\* consume: each fragment of the table once, in ascending key order; one
\* block per group of consumed fragments, the open block being the last
PassState ==
    Merging =>
        LET all == Flatten(members) \o KeysOf(frags)
        IN  /\ Len(all) = Cardinality(DOMAIN fragdb)
            /\ {all[i] : i \in 1..Len(all)} = DOMAIN fragdb
            /\ \A i \in 1..(Len(all) - 1) : KeyLess(all[i], all[i + 1])
            /\ Len(blocks) = Len(members)
            /\ \A i \in 1..Len(blocks) :
                  /\ members[i] # <<>>
                  /\ blocks[i].FragNum = Len(members[i])
                  /\ blocks[i].Start = members[i][1][2]
                  /\ blocks[i].End = members[i][Len(members[i])][3]
            /\ prevfrag = Len(blocks)
            /\ Merged =>
                  /\ frags = <<>>
                  /\ DOMAIN fragdb # {} => Len(blocks) >= 1

(* C25: every pass of the merge loop consumes the first of the remaining  *)
(* fragments and nothing else, so the loop ends after as many passes as   *)
(* there are fragments; the fragments are consumed once each in ascending *)
(* (SeqName, Start, End, Strand) order; when the loop ends every block    *)
(* opened, the last one included, is in the output list, and the list is  *)
(* not empty if there was a fragment.                                     *)
C25_SinglePass ==
    [][/\ PassState'
       /\ (pc = "merge" /\ pc' = "merge") =>
             /\ frags # <<>>
             /\ frags' = Tail(frags)
             /\ Len(blocks') \in {Len(blocks), Len(blocks) + 1}
       /\ (pc = "merge" /\ pc' # "merge") =>
             /\ frags = <<>>
             /\ Len(blocks') = Len(blocks)]_vars

\* a pass over three or more fragments on two sequences ended with two or
\* more blocks
C25_Witness ==
    /\ pc = "coverage"
    /\ Len(Flatten(members)) >= 3
    /\ Len(blocks) >= 2
    /\ Len(members[1]) >= 2
    /\ blocks[Len(blocks)].SeqName = "chr2"

\* the sum of FragNum over the rows of a table
RECURSIVE SumFragNum(_, _)
SumFragNum(tbl, keys) ==
    IF keys = {} THEN 0
    ELSE LET k == CHOOSE x \in keys : TRUE
         IN  tbl[k].FragNum + SumFragNum(tbl, keys \ {k})

(* C26: in the saved block table every fragment belongs to exactly one    *)
(* block: the FragNum of the saved blocks sum to the number of fragments  *)
(* and every block the merge pass formed has a row of its own, for any    *)
(* setting of stranded and fragmerge.                                     *)
C26_FragmentsConserved ==
    Merged =>
        /\ SumFragNum(blockdb, DOMAIN blockdb) = Cardinality(DOMAIN fragdb)
        /\ Cardinality(DOMAIN blockdb) = Len(blocks)
        /\ \A i \in 1..Len(blocks) :
              blockdb[BlockKey(blocks[i])].mtFrag = blocks[i].mtFrag

(* C27: with stranded=F, any two blocks that follow one another in the    *)
(* output and are on the same sequence have (later Start - earlier End)   *)
(* > fragmerge; each block is in the saved table under its own key.       *)
C27_GreedyMaximal ==
    (Merging /\ ~opt.Stranded) =>
        /\ \A i \in 1..(Len(blocks) - 1) :
              blocks[i].SeqName = blocks[i + 1].SeqName =>
                  blocks[i + 1].Start - blocks[i].End > opt.FragMerge
        /\ Merged =>
              \A i \in 1..Len(blocks) :
                  /\ BlockKey(blocks[i]) \in DOMAIN blockdb
                  /\ blockdb[BlockKey(blocks[i])].FragNum = blocks[i].FragNum

\* two blocks on one sequence were saved, the second starting just past
\* the reach of fragmerge from the end of the first
C27_Witness ==
    /\ Merged
    /\ ~opt.Stranded
    /\ opt.FragMerge = MaxFragMerge
    /\ \E i \in 1..(Len(blocks) - 1) :
          /\ blocks[i].SeqName = blocks[i + 1].SeqName
          /\ blocks[i + 1].Start - blocks[i].End = opt.FragMerge + 1

(* C28: at every step of the merge pass each block has                    *)
(* End - Start + 1 = FragLen + FragGaps, and so has every saved block,    *)
(* whose Length is that same extent; overlapping fragments add a          *)
(* negative gap.                                                          *)
C28_ExtentAccounting ==
    /\ Merging =>
          \A i \in 1..Len(blocks) :
              blocks[i].End - blocks[i].Start + 1
                  = blocks[i].FragLen + blocks[i].FragGaps
    /\ Merged =>
          \A bk \in DOMAIN blockdb :
              /\ blockdb[bk].End - blockdb[bk].Start + 1
                    = blockdb[bk].FragLen + blockdb[bk].FragGaps
              /\ blockdb[bk].Length = blockdb[bk].FragLen + blockdb[bk].FragGaps

\* a saved block of overlapping fragments, its gap total below zero
C28_Witness ==
    /\ Merged
    /\ \E bk \in DOMAIN blockdb :
          /\ blockdb[bk].FragNum >= 2
          /\ blockdb[bk].FragGaps < 0
          /\ blockdb[bk].FragLen > blockdb[bk].End - blockdb[bk].Start + 1

====
